---- MODULE Spec2Model ----
(***************************************************************************)
(* JWT authentication subsystem of the oil service (app/core/security.py):  *)
(* the process-wide JWKS cache with its time-to-live, get_jwks with its     *)
(* awaited network fetch, get_key_from_jwks and validate_token.             *)
(*                                                                          *)
(* Time is counted in ticks of 1/TicksPerSec second, so that a reading of   *)
(* time.time() (a float) can fall strictly between two whole seconds, while *)
(* a token's exp and the whole-second clock of jwt.decode stay integers.    *)
(* Several coroutines (Procs) run on one event loop: a coroutine's step is  *)
(* atomic up to its next await (the fetch, and the exit of the client's     *)
(* "async with" block).                                                     *)
(*                                                                          *)
(* Spec is the cache under direct calls of get_jwks and validate_token.     *)
(* ApiSpec is the request pipeline of api/v1/endpoints/oil.py: the          *)
(* Authorization header (get_token_data), validate_token over the same      *)
(* cache, the role gates has_role / has_any_role and the endpoint with its  *)
(* OilService operation. OilSpec is OilService called directly by two       *)
(* request handlers at the same time, each in the transaction of its own    *)
(* request, on the table oil_resources and the storage client; an           *)
(* operation takes one step per awaited statement or storage attempt.       *)
(***************************************************************************)
EXTENDS Integers, Sequences, FiniteSets, TLC

(* ------------------------------ bounds -------------------------------- *)
\* resolution of the clock: ticks per second
TicksPerSec == 2
\* the wall clock, in seconds, when the process starts
StartTime == 1000
\* single ticks the clock may take before and after its long jump
MaxSmallTicks == 1
\* calls (get_jwks or validate_token) started in one run
MaxCalls == 3
\* requests that reach validate_token in one run of the request pipeline
MaxRequests == 2
\* OilService calls each request handler starts in one run of OilSpec
MaxOilCalls == 2

(* ------------------------- program constants -------------------------- *)
_jwks_cache_ttl == 3600
UNAUTHORIZED == 401
SERVICE_UNAVAILABLE == 503

\* the concurrent coroutines; each may call get_jwks, those of Validators
\* also validate_token
Procs == {"a", "b"}
Validators == {"a"}
\* the coroutine whose task is cancelled while it awaits
Cancellable == {"a"}
TTL == _jwks_cache_ttl * TicksPerSec
StartNow == StartTime * TicksPerSec
\* the long jump of the clock: exactly one time-to-live
JumpLen == TTL

(* ------------------------------ key sets ------------------------------ *)
\* header.get("kid") / key.get("kid") when the member is absent
NoKid == "None"
\* a key entry of the document: its kid and its key material; material "bad"
\* is material jwk.construct rejects
JwkEntry(k, m) == [kid |-> k, mat |-> m]
\* the value None returned by get_key_from_jwks
NoKey == [kid |-> "-", mat |-> "-"]

\* Response bodies (response.json()). nonempty is the truth value of the
\* parsed dict; keys is jwks.get("keys", []).
EmptyDoc == [nonempty |-> FALSE, keys |-> <<>>]
DocA == [nonempty |-> TRUE, keys |-> <<JwkEntry("k1", "m1"), JwkEntry("k2", "bad")>>]
DocB == [nonempty |-> TRUE,
         keys |-> <<JwkEntry(NoKid, "m2"), JwkEntry("k1", "m2"), JwkEntry("k1", "m1")>>]
Docs == {EmptyDoc, DocA, DocB}

\* the ways "await client.get / raise_for_status / response.json()" raises
FailOutcomes == {"network_error", "http_error", "malformed_body"}

(* ------------------------------- tokens ------------------------------- *)
\* A token: empty string or not; whether its header parses; the header's kid;
\* the key material whose private half signed it ("forged": none); the
\* payload's exp (seconds); whether the payload has the required Claims
\* fields other than exp.
Token(e, h, k, s, x, sh) ==
    [empty |-> e, headerOk |-> h, kid |-> k, sig |-> s, exp |-> x, shape |-> sh]
EmptyToken == Token(TRUE, FALSE, NoKid, "-", 0, "-")
GarbageToken == Token(FALSE, FALSE, NoKid, "-", 0, "-")
\* placeholder of a coroutine that holds no token
NoToken == Token(TRUE, FALSE, "-", "-", 0, "-")
TokenKids == {"k1", "k2", "k3", NoKid}
TokenSigs == {"m1", "forged"}
\* the tokens presented at whole second sec: every kid signed by m1 and
\* kid k1 under every signer, with a well-shaped payload expiring next
\* second, and, for kid k1 signed by m1, every expiry around sec and every
\* payload shape
TokensAt(sec) ==
    {EmptyToken, GarbageToken}
    \cup {Token(FALSE, TRUE, k, "m1", sec + 1, "ok") : k \in TokenKids}
    \cup {Token(FALSE, TRUE, "k1", s, sec + 1, "ok") : s \in TokenSigs}
    \cup {Token(FALSE, TRUE, "k1", "m1", x, sh) :
            x \in {sec - 1, sec, sec + 1}, sh \in {"ok", "bad"}}

(* ------------------------------ results ------------------------------- *)
NoValue == [none |-> TRUE]
NoResult == [kind |-> "none", exc |-> "-", status |-> 0, message |-> "-", value |-> NoValue]
Return(v) == [kind |-> "return", exc |-> "-", status |-> 0, message |-> "-", value |-> v]
Raise(e, s, m) == [kind |-> "raise", exc |-> e, status |-> s, message |-> m, value |-> NoValue]

\* exceptions.py: AuthException defaults to UNAUTHORIZED
AuthException(m) == Raise("AuthException", UNAUTHORIZED, m)
JwksFetchFailed ==
    Raise("AppException", SERVICE_UNAVAILABLE,
          "Failed to fetch JWKS from authentication server")
\* asyncio.CancelledError is a BaseException: no "except Exception" catches it
Cancelled == Raise("CancelledError", 0, "-")

Min(S) == CHOOSE x \in S : \A y \in S : x <= y

(* ------------------- the Authorization header and roles ---------------- *)
FORBIDDEN == 403
\* security.py:174-179 and 197-202
AccessDenied == Raise("AuthException", FORBIDDEN, "Access denied")

\* A header value is a string, written as the sequence of its pieces: a run
\* of whitespace (" ") or a word; absent (None) when present is FALSE.
NoHeader == [present |-> FALSE, text |-> <<>>]
HeaderValue(text) == [present |-> TRUE, text |-> text]
\* Python's truth value of Optional[str]: None and "" are false
is_truthy(h) == h.present /\ Len(h.text) > 0
IsWord(w) == w # " "
\* str.split() with no argument: the words, whitespace runs dropped
split(h) == SelectSeq(h.text, IsWord)
\* str.lower() on the words that occur
lower(w) ==
    CASE w \in {"Bearer", "BEARER", "bearer"} -> "bearer"
      [] w \in {"Token", "token"} -> "token"
      [] OTHER -> w

\* realm_access: a dict that may or may not have the member "roles"
RealmAccess(has, rs) == [has_roles |-> has, roles |-> rs]
\* resource_access: None, or a dict of clients, each a dict that may or may
\* not have the member "roles"; clients lists its values
NoResourceAccess == [present |-> FALSE, clients |-> <<>>]
ResourceAccess(cs) == [present |-> TRUE, clients |-> cs]
Roles == {"ROLE_ADMIN", "ROLE_USER", "ROLE_OTHER"}

\* A token whose payload carries roles: the fields of Token, the subject and
\* e-mail, realm_access and resource_access.
RoleToken(k, s, x, sh, who, realm, resource) ==
    [empty |-> FALSE, headerOk |-> TRUE, kid |-> k, sig |-> s, exp |-> x,
     shape |-> sh, sub |-> who, email |-> who,
     realm_access |-> realm, resource_access |-> resource]

\* the compact serialisations presented in headers at whole second sec, by
\* name
JwtNames ==
    {"jwt.admin", "jwt.user", "jwt.client", "jwt.none", "jwt.expired",
     "jwt.forged", "jwt.badshape"}
JwtAt(name, sec) ==
    CASE name = "jwt.admin" ->
            RoleToken("k1", "m1", sec + 1, "ok", "alice",
                      RealmAccess(TRUE, <<"ROLE_ADMIN">>), NoResourceAccess)
      [] name = "jwt.user" ->
            RoleToken("k1", "m1", sec + 1, "ok", "bob",
                      RealmAccess(TRUE, <<"ROLE_USER">>), NoResourceAccess)
      [] name = "jwt.client" ->
            RoleToken("k1", "m1", sec + 1, "ok", "carol",
                      RealmAccess(FALSE, <<>>),
                      ResourceAccess(<<RealmAccess(FALSE, <<>>),
                                       RealmAccess(TRUE, <<"ROLE_OTHER", "ROLE_ADMIN">>),
                                       RealmAccess(TRUE, <<"ROLE_USER">>)>>))
      [] name = "jwt.none" ->
            RoleToken("k1", "m1", sec + 1, "ok", "dave",
                      RealmAccess(TRUE, <<>>), ResourceAccess(<<>>))
      [] name = "jwt.expired" ->
            RoleToken("k1", "m1", sec - 1, "ok", "alice",
                      RealmAccess(TRUE, <<"ROLE_ADMIN", "ROLE_USER">>), NoResourceAccess)
      [] name = "jwt.forged" ->
            RoleToken("k1", "forged", sec + 1, "ok", "mallory",
                      RealmAccess(TRUE, <<>>), NoResourceAccess)
      [] name = "jwt.badshape" ->
            RoleToken("k1", "m1", sec + 1, "bad", "erin",
                      RealmAccess(TRUE, <<>>), NoResourceAccess)
\* the token a word of the header stands for: any other word is no JWT
parse_compact(w, sec) ==
    IF w \in JwtNames THEN JwtAt(w, sec) ELSE GarbageToken

\* the header values requests carry
Headers ==
    {NoHeader, HeaderValue(<<>>), HeaderValue(<<" ">>),
     HeaderValue(<<"Token", " ", "jwt.admin">>),
     HeaderValue(<<"Bearer">>),
     HeaderValue(<<"jwt.admin">>),
     HeaderValue(<<"jwt.admin", " ", "Bearer">>),
     HeaderValue(<<"Bearer", " ", "jwt.admin", " ", "jwt.user">>),
     HeaderValue(<<"Bearer", " ", "Bearer">>),
     HeaderValue(<<"bearer", " ", "jwt.user">>),
     HeaderValue(<<" ", "BEARER", " ", "jwt.client", " ">>)}
    \cup {HeaderValue(<<"Bearer", " ", n>>) : n \in JwtNames}

\* auth.py:31-46: the concatenation of the role lists of the clients
RECURSIVE client_roles(_)
client_roles(cs) ==
    IF cs = <<>> THEN <<>>
    ELSE (IF Head(cs).has_roles THEN Head(cs).roles ELSE <<>>)
         \o client_roles(Tail(cs))
\* roles that reads the realm roles only
token_roles_realm_only(claims) ==
    IF claims.realm_access.has_roles THEN claims.realm_access.roles ELSE <<>>
\* auth.py:31-46, JWTTokenData.roles
token_roles(claims) ==
    (IF claims.realm_access.has_roles THEN claims.realm_access.roles ELSE <<>>)
    \o (IF claims.resource_access.present
        THEN client_roles(claims.resource_access.clients) ELSE <<>>)
\* "x in list"
InList(x, l) == \E i \in 1..Len(l) : l[i] = x
\* auth.py:48-50, JWTTokenData.has_role
token_has_role(claims, r) == InList(r, token_roles(claims))
\* auth.py:56-58, JWTTokenData.has_all_roles, in the place of has_any_role
token_has_all_roles(claims, rs) ==
    \A j \in 1..Len(rs) : InList(rs[j], token_roles(claims))
\* auth.py:52-54, JWTTokenData.has_any_role: any() of an empty list is False
token_has_any_role(claims, rs) ==
    \E j \in 1..Len(rs) : InList(rs[j], token_roles(claims))

\* The role gates a route depends on: has_role(r) and has_any_role(rs).
HasRole(r) == [kind |-> "has_role", roles |-> <<r>>]
HasAnyRole(rs) == [kind |-> "has_any_role", roles |-> rs]
RoleLists ==
    {<<>>, <<"ROLE_ADMIN", "ROLE_USER">>, <<"ROLE_OTHER">>}
Gates == {HasRole(r) : r \in Roles} \cup {HasAnyRole(rs) : rs \in RoleLists}

\* get_token_data that asks for at least two parts and ignores further ones
parse_authorization_ignores_extra_parts(h) ==
    IF ~is_truthy(h)
    THEN [ok |-> FALSE, failure |-> AuthException("Missing authorization header"),
          word |-> "-"]
    ELSE LET parts == split(h) IN
         IF Len(parts) < 2 \/ lower(parts[1]) # "bearer"
         THEN [ok |-> FALSE,
               failure |-> AuthException("Invalid authorization header format"),
               word |-> "-"]
         ELSE [ok |-> TRUE, failure |-> NoResult, word |-> parts[2]]

\* security.py:147-156, get_token_data up to its call of validate_token: the
\* failure raised, or the word handed on as the token
parse_authorization(h) ==
    IF ~is_truthy(h)
    THEN [ok |-> FALSE, failure |-> AuthException("Missing authorization header"),
          word |-> "-"]
    ELSE LET parts == split(h) IN
         IF Len(parts) # 2 \/ lower(parts[1]) # "bearer"
         THEN [ok |-> FALSE,
               failure |-> AuthException("Invalid authorization header format"),
               word |-> "-"]
         ELSE [ok |-> TRUE, failure |-> NoResult, word |-> parts[2]]

\* the test of role_checker (security.py:174 and 197) for a gate
is_granted(gate, claims) ==
    IF gate.kind = "has_role"
    THEN token_has_role(claims, gate.roles[1])
    ELSE token_has_any_role(claims, gate.roles)
\* security.py:171-180 and 194-203, role_checker on validated claims
role_checker(gate, claims) ==
    IF is_granted(gate, claims) THEN Return(claims) ELSE AccessDenied

(* --------------------------- oil resources ----------------------------- *)
NOT_FOUND == 404
INTERNAL_SERVER_ERROR == 500
\* stop_after_attempt of the storage client's retry
MaxAttempts == 3

\* None of an Optional field
None == "None"
OilIds == {"id1", "id2"}
\* no row with that id
NoRow == [absent |-> TRUE]
UrlA == "https://cdn.example/uploads/a.pdf"
UrlB == "https://cdn.example//uploads/b.pdf"
\* models/oil.py:19-45: a row of oil_resources
OilResource(id, d, p, t, u, who, mail, c, m) ==
    [id |-> id, date |-> d, price |-> p, type |-> t, oil_document_url |-> u,
     userId |-> who, email |-> mail, created_at |-> c, updated_at |-> m]
\* models/oil.py:48-58: the body of create_oil; type defaults to PETROL
OilResourceCreate(d, p, t, u) ==
    [date |-> d, price |-> p, type |-> t, oil_document_url |-> u]
\* models/oil.py:61-65: the body of update_oil, every field Optional
OilResourceUpdate(d, p, t, u) ==
    [date |-> d, price |-> p, type |-> t, oil_document_url |-> u]
UpdateFields == {"date", "price", "type", "oil_document_url"}
CreateInputs ==
    {OilResourceCreate("2024-01-01", "1.5", "PETROL", u) : u \in {None, "", UrlA}}
UpdateInputs ==
    {OilResourceUpdate(d, p, t, u) :
        d \in {None}, p \in {None, "2.5"},
        t \in {None, "DIESEL"}, u \in {None, UrlB}}
\* the bodies requests carry through the endpoints
ApiUpdateInputs ==
    {OilResourceUpdate(None, None, None, None),
     OilResourceUpdate(None, "2.5", None, None)}
\* models/storage.py:8-11, key of UploadUrlRequest
UploadKeys ==
    {None, "", "a.pdf", "uploads/a.pdf", "uploads", "uploads/", "/uploads/a.pdf"}

\* the table at the start: one resource with a document
InitialDb ==
    [id \in OilIds |->
        IF id = "id1"
        THEN OilResource("id1", "2024-01-01", "1.5", "PETROL", UrlA,
                         "alice", "alice", 0, 0)
        ELSE NoRow]

\* oil_service.py:130: the members of model_dump() that are not None
update_data(data) == {k \in UpdateFields : data[k] # None}
\* base_repository.py:79-93: the row after the UPDATE statement at time t;
\* updated_at has onupdate (models/oil.py:37-44)
updated_row(row, data, t) ==
    [f \in DOMAIN row |->
        IF f \in update_data(data) THEN data[f]
        ELSE IF f = "updated_at" THEN t
        ELSE row[f]]
\* str.startswith
startswith(s, p) == Len(s) >= Len(p) /\ SubSeq(s, 1, Len(p)) = p
\* str.find from position from (1-based); 0 when p does not occur
find(s, p, from) ==
    LET at == {i \in from..(Len(s) - Len(p) + 1) : SubSeq(s, i, i + Len(p) - 1) = p}
    IN IF at = {} THEN 0 ELSE Min(at)
\* urlparse(url).path of an absolute URL without query or fragment
\* (everything from the first slash after the authority) or of a relative
\* one (the text itself)
url_path(u) ==
    LET sep == find(u, "://", 1)
        slash == IF sep = 0 THEN 1 ELSE find(u, "/", sep + 3)
    IN IF slash = 0 THEN "" ELSE SubSeq(u, slash, Len(u))
\* str.lstrip('/'): every leading slash is removed
RECURSIVE lstrip_slash(_)
lstrip_slash(s) ==
    IF startswith(s, "/") THEN lstrip_slash(SubSeq(s, 2, Len(s))) ELSE s
\* oil_service.py:165-167
document_key(u) == lstrip_slash(url_path(u))

\* tenacity's retry around a storage call (r2_client.py:44-49, 100-105):
\* a retry that lets one attempt more through before it stops
stop_after_attempt_one_late(n) == n > MaxAttempts
\* stop_after_attempt(3): after the n-th attempt failed, no further one is
\* made when n has reached the limit
stop_after_attempt(n) == n >= MaxAttempts
\* how one attempt may end
AttemptOutcomes == {"ok", "error"}
\* str(e) of the exception a failed attempt i raises: every attempt fails
\* with an exception of its own
attempt_error(i) == "storage error in attempt " \o ToString(i)
\* the log entry of attempt i of a storage call: what it raised and the
\* number of statements the request had executed when it was made
attempt_entry(what, key, out, i, executed) ==
    [call |-> what, key |-> key, outcome |-> out,
     raised |-> IF out = "ok" THEN "-" ELSE attempt_error(i),
     after |-> executed]

\* the values uuid.uuid4() may return, as text; it is called only when no
\* key was given
Uuid4s == {"uuid-1", "uuid-2"}
\* settings.R2_PUBLIC_URL (core/config.py:39)
R2_PUBLIC_URL == "https://cdn.example"
\* normalisation that prepends the prefix to every key that was given
normalise_key_always_prefixes(k, uuid) ==
    IF k = "" THEN "uploads/" \o uuid ELSE "uploads/" \o k
\* r2_client.py:56-60; uuid is what uuid.uuid4() returns in this attempt
normalise_key(k, uuid) ==
    IF k = "" THEN "uploads/" \o uuid
    ELSE IF ~startswith(k, "uploads/") THEN "uploads/" \o k
    ELSE k
\* r2_client.py:91-98: the members of the returned dictionary that depend
\* on the key
upload_data(key) ==
    [key |-> key, method |-> "PUT", public_url |-> R2_PUBLIC_URL \o "/" \o key]

\* oil_service.py:45, 135, 156; the message names the id
NotFound(id) ==
    Raise("AppException", NOT_FOUND,
          IF id = "id1" THEN "Oil resource with ID id1 not found"
          ELSE "Oil resource with ID id2 not found")
\* oil_service.py:90, 173; the message is the text of the exception the
\* storage call ended with, that of its last attempt (reraise=True)
StorageFailed(n) ==
    Raise("AppException", INTERNAL_SERVER_ERROR, attempt_error(n))
\* base_repository.py:93: session.refresh of an instance whose row is gone
\* raises sqlalchemy's InvalidRequestError; no handler of the service
\* catches it and general_exception_handler answers 500 with its text
\* (error_handlers.py:51-67, models/error.py:12-19)
RefreshFailed ==
    Raise("InvalidRequestError", INTERNAL_SERVER_ERROR, "Could not refresh instance")

\* the endpoints of api/v1/endpoints/oil.py and, as "route", a route that
\* only depends on the gate it is given
Endpoints ==
    {"create_oil", "get_all_oil", "get_oil", "update_oil", "delete_oil",
     "generate_upload_url"}
\* every endpoint behind has_role("ROLE_ADMIN")
EndpointGate_admin_everywhere(ep) == HasRole("ROLE_ADMIN")
\* oil.py:33, 57, 75, 96, 116, 137
EndpointGate(ep) ==
    IF ep \in {"get_all_oil", "get_oil"} THEN HasRole("ROLE_USER")
    ELSE HasRole("ROLE_ADMIN")
NoRequest == [endpoint |-> "-", gate |-> HasAnyRole(<<>>), authorization |-> NoHeader]
Request(ep, g, h) == [endpoint |-> ep, gate |-> g, authorization |-> h]
Bearer(n) == HeaderValue(<<"Bearer", " ", n>>)
\* the tokens that validate against DocA
ValidJwtNames == {"jwt.admin", "jwt.user", "jwt.client", "jwt.none"}
\* every endpoint with every valid token, an expired one and no header;
\* every gate with every valid token; one route with every header
Requests ==
    {Request(ep, EndpointGate(ep), h) :
        ep \in Endpoints,
        h \in {Bearer(n) : n \in ValidJwtNames} \cup {Bearer("jwt.expired"), NoHeader}}
    \cup {Request("route", g, Bearer(n)) : g \in Gates, n \in ValidJwtNames}
    \cup {Request("route", HasRole("ROLE_USER"), h) : h \in Headers}
\* the service call an endpoint made
NoCall == [op |-> "-", oil_id |-> "-", data |-> NoValue]
ServiceCall(o, id, d) == [op |-> o, oil_id |-> id, data |-> d]
\* what a transaction has written and not committed: the row of one id as
\* it will be (NoRow when deleted); no operation writes more than one row
NoWrite == [id |-> "-", row |-> NoRow]
Write(id, row) == [id |-> id, row |-> row]

VARIABLES
    now,                 \* the wall clock, in ticks
    _jwks_cache,         \* security.py:16
    _jwks_last_updated,  \* security.py:17, in ticks
    calls,               \* calls started so far by each coroutine
    pc,                  \* where each coroutine stands
    op,                  \* what each coroutine was called for
    token,               \* the argument of validate_token
    current_time,        \* the local of get_jwks (line 34), while it runs
    nfetch,              \* network requests issued by the coroutine's call
    outcome,             \* how the call's fetch ended
    stage,               \* the last step of validate_token the call reached
    result,              \* what the call returned or raised
    request,             \* the HTTP request being served, its header and gate
    response,            \* how the request ended
    db,                  \* the table oil_resources, committed
    served,              \* the OilService call each handler made last
    phase,               \* the await at which each handler's call stands
    oil_resource,        \* the row the call's lookup returned (its local)
    session,             \* the uncommitted write of each handler's transaction
    statements,          \* the INSERT/UPDATE/DELETE statements the call ran
    storage_calls,       \* the attempts the call made on the storage client
    ended                \* what the call returned or raised

\* the variables of the request layer
oilVars == <<db, served, phase, oil_resource, session, statements,
             storage_calls, ended>>
apiVars == <<request, response, db, served, phase, oil_resource, session,
             statements, storage_calls, ended>>
\* the variables of the key-set cache and its callers
authVars == <<_jwks_cache, _jwks_last_updated, calls, pc, op, token,
              current_time, nfetch, outcome, stage, result>>
vars == <<now, _jwks_cache, _jwks_last_updated, calls, pc, op, token,
          current_time, nfetch, outcome, stage, result,
          request, response, db, served, phase, oil_resource, session,
          statements, storage_calls, ended>>

Init ==
    /\ now = StartNow
    /\ _jwks_cache = EmptyDoc
    /\ _jwks_last_updated = 0
    /\ calls = [p \in Procs |-> 0]
    /\ pc = [p \in Procs |-> "idle"]
    /\ op = [p \in Procs |-> "-"]
    /\ token = [p \in Procs |-> NoToken]
    /\ current_time = [p \in Procs |-> 0]
    /\ nfetch = [p \in Procs |-> 0]
    /\ outcome = [p \in Procs |-> "-"]
    /\ stage = [p \in Procs |-> "-"]
    /\ result = [p \in Procs |-> NoResult]
    /\ request = NoRequest
    /\ response = NoResult
    /\ db = InitialDb
    /\ served = [p \in Procs |-> NoCall]
    /\ phase = [p \in Procs |-> "idle"]
    /\ oil_resource = [p \in Procs |-> NoRow]
    /\ session = [p \in Procs |-> NoWrite]
    /\ statements = [p \in Procs |-> <<>>]
    /\ storage_calls = [p \in Procs |-> <<>>]
    /\ ended = [p \in Procs |-> NoResult]

(* --------------------------- pure functions --------------------------- *)
RECURSIVE SumOver(_, _)
SumOver(f, S) ==
    IF S = {} THEN 0
    ELSE LET x == CHOOSE y \in S : TRUE IN f[x] + SumOver(f, S \ {x})
TotalCalls == SumOver(calls, Procs)

\* security.py:35
NeedsRefresh(cache, last, t) ==
    (~cache.nonempty) \/ (t - last > TTL)

\* get_key_from_jwks that falls back on the first key of the set when no kid
\* matches
get_key_from_jwks_or_first(tok, doc) ==
    IF ~tok.headerOk THEN NoKey
    ELSE LET hits == {i \in 1..Len(doc.keys) : doc.keys[i].kid = tok.kid}
         IN IF hits # {} THEN doc.keys[Min(hits)]
            ELSE IF Len(doc.keys) > 0 THEN doc.keys[1] ELSE NoKey

\* security.py:53-75; a header without kid and a key without kid compare
\* equal (None == None)
get_key_from_jwks(tok, doc) ==
    IF ~tok.headerOk THEN NoKey
    ELSE LET hits == {i \in 1..Len(doc.keys) : doc.keys[i].kid = tok.kid}
         IN IF hits = {} THEN NoKey ELSE doc.keys[Min(hits)]

\* the whole-second clock of jwt.decode's exp check
jose_now(t) == t \div TicksPerSec

\* jwt.decode that checks the registered claims and not the signature
jwt_decode_unverified(tok, key, t) ==
    IF tok.exp < jose_now(t) THEN "ExpiredSignatureError" ELSE "ok"

\* jwt.decode (security.py:107-112, python-jose): the signature first, a
\* JWTError when it does not verify; then the registered claims, where
\* verify_exp is on by default and raises ExpiredSignatureError, a JWTError,
\* when exp < now in whole seconds
jwt_decode(tok, key, t) ==
    IF tok.sig # key.mat THEN "JWTError"
    ELSE IF tok.exp < jose_now(t) THEN "ExpiredSignatureError"
    ELSE "ok"

\* security.py:118
is_expired(tok, t) == tok.exp * TicksPerSec < t

\* security.py:98-129 for a key set doc read at time t: the result and the
\* last step reached
validate_with(tok, doc, t) ==
    LET key == get_key_from_jwks(tok, doc) IN
    IF key = NoKey
    THEN [result |-> AuthException("Invalid token signature: Key not found"),
          stage |-> "get_key"]
    ELSE IF key.mat = "bad"
    THEN [result |-> AuthException("Error validating authentication token"),
          stage |-> "construct"]
    ELSE IF jwt_decode(tok, key, t) # "ok"
    THEN [result |-> AuthException("Invalid authentication token"),
          stage |-> "decode"]
    ELSE IF tok.shape # "ok"
    THEN [result |-> AuthException("Error validating authentication token"),
          stage |-> "model"]
    ELSE IF is_expired(tok, t)
    THEN [result |-> AuthException("Token has expired"), stage |-> "expiry"]
    ELSE [result |-> Return(tok), stage |-> "return"]

\* validate_token that lets the exception of get_jwks pass as it is
wrap_jwks_failure_reraises(e) == e

\* security.py:94-129: an exception of get_jwks inside the try block of
\* validate_token; AppException is no JWTError and no AuthException
wrap_jwks_failure(e) ==
    IF e.exc = "CancelledError" THEN e
    ELSE AuthException("Error validating authentication token")

(* ------------------------------ actions ------------------------------- *)
\* get_jwks returned doc at the current instant to coroutine p, called for o
\* with token tok: the call ends, with lines 98-129 run when o is
\* validate_token
JwksReturns(p, o, tok, doc) ==
    /\ pc' = [pc EXCEPT ![p] = "done"]
    /\ current_time' = [current_time EXCEPT ![p] = 0]
    /\ IF o = "get_jwks"
       THEN /\ result' = [result EXCEPT ![p] = Return(doc)]
            /\ stage' = [stage EXCEPT ![p] = "-"]
       ELSE /\ result' = [result EXCEPT ![p] = validate_with(tok, doc, now).result]
            /\ stage' = [stage EXCEPT ![p] = validate_with(tok, doc, now).stage]

\* get_jwks raised e in coroutine p: the call ends
JwksRaises(p, e) ==
    /\ pc' = [pc EXCEPT ![p] = "done"]
    /\ current_time' = [current_time EXCEPT ![p] = 0]
    /\ result' = [result EXCEPT ![p] =
                    IF op[p] = "get_jwks" THEN e ELSE wrap_jwks_failure(e)]
    /\ stage' = [stage EXCEPT ![p] = IF op[p] = "get_jwks" THEN "-" ELSE "get_jwks"]

\* security.py:31-35 and, on a fresh cache, line 50
EnterGetJwks(p, o, tok) ==
    /\ outcome' = [outcome EXCEPT ![p] = "-"]
    /\ IF NeedsRefresh(_jwks_cache, _jwks_last_updated, now)
       THEN /\ pc' = [pc EXCEPT ![p] = "fetching"]
            /\ current_time' = [current_time EXCEPT ![p] = now]
            /\ nfetch' = [nfetch EXCEPT ![p] = 1]
            /\ result' = [result EXCEPT ![p] = NoResult]
            /\ stage' = [stage EXCEPT ![p] = "-"]
       ELSE /\ nfetch' = [nfetch EXCEPT ![p] = 0]
            /\ JwksReturns(p, o, tok, _jwks_cache)

\* a direct call of get_jwks
CallGetJwks(p) ==
    /\ pc[p] \in {"idle", "done"}
    /\ TotalCalls < MaxCalls
    /\ calls' = [calls EXCEPT ![p] = calls[p] + 1]
    /\ op' = [op EXCEPT ![p] = "get_jwks"]
    /\ token' = [token EXCEPT ![p] = NoToken]
    /\ EnterGetJwks(p, "get_jwks", NoToken)
    /\ UNCHANGED <<now, _jwks_cache, _jwks_last_updated>>

\* validate_token that fetches the key set before it looks at the token
CallValidate_fetches_first(p, tok) ==
    /\ pc[p] \in {"idle", "done"}
    /\ TotalCalls < MaxCalls
    /\ calls' = [calls EXCEPT ![p] = calls[p] + 1]
    /\ op' = [op EXCEPT ![p] = "validate_token"]
    /\ token' = [token EXCEPT ![p] = tok]
    /\ EnterGetJwks(p, "validate_token", tok)
    /\ UNCHANGED <<now, _jwks_cache, _jwks_last_updated>>

\* security.py:78-96: validate_token(tok) up to its first await
CallValidate(p, tok) ==
    /\ pc[p] \in {"idle", "done"}
    /\ TotalCalls < MaxCalls
    /\ calls' = [calls EXCEPT ![p] = calls[p] + 1]
    /\ op' = [op EXCEPT ![p] = "validate_token"]
    /\ token' = [token EXCEPT ![p] = tok]
    /\ IF tok.empty
       THEN /\ pc' = [pc EXCEPT ![p] = "done"]
            /\ result' = [result EXCEPT ![p] =
                            AuthException("Missing authentication token")]
            /\ stage' = [stage EXCEPT ![p] = "missing"]
            /\ current_time' = [current_time EXCEPT ![p] = 0]
            /\ nfetch' = [nfetch EXCEPT ![p] = 0]
            /\ outcome' = [outcome EXCEPT ![p] = "-"]
       ELSE EnterGetJwks(p, "validate_token", tok)
    /\ UNCHANGED <<now, _jwks_cache, _jwks_last_updated>>

\* FetchOk that stores the document and leaves the timestamp as it was
FetchOk_keeps_timestamp(p, doc) ==
    /\ pc[p] = "fetching"
    /\ _jwks_cache' = doc
    /\ outcome' = [outcome EXCEPT ![p] = "ok"]
    /\ pc' = [pc EXCEPT ![p] = "closing"]
    /\ UNCHANGED <<now, _jwks_last_updated, calls, op, token, current_time, nfetch,
                   stage, result>>

\* FetchOk that merges the keys of the response into the cached document
FetchOk_merges(p, doc) ==
    /\ pc[p] = "fetching"
    /\ _jwks_cache' = [nonempty |-> _jwks_cache.nonempty \/ doc.nonempty,
                       keys |-> _jwks_cache.keys \o doc.keys]
    /\ _jwks_last_updated' = current_time[p]
    /\ outcome' = [outcome EXCEPT ![p] = "ok"]
    /\ pc' = [pc EXCEPT ![p] = "closing"]
    /\ UNCHANGED <<now, calls, op, token, current_time, nfetch, stage, result>>

\* FetchOk that stamps the cache with the time the response arrived
FetchOk_stamps_arrival(p, doc) ==
    /\ pc[p] = "fetching"
    /\ _jwks_cache' = doc
    /\ _jwks_last_updated' = now
    /\ outcome' = [outcome EXCEPT ![p] = "ok"]
    /\ pc' = [pc EXCEPT ![p] = "closing"]
    /\ UNCHANGED <<now, calls, op, token, current_time, nfetch, stage, result>>

\* security.py:39-43: the response arrived, was 2xx and parsed
FetchOk(p, doc) ==
    /\ pc[p] = "fetching"
    /\ _jwks_cache' = doc
    /\ _jwks_last_updated' = current_time[p]
    /\ outcome' = [outcome EXCEPT ![p] = "ok"]
    /\ pc' = [pc EXCEPT ![p] = "closing"]
    /\ UNCHANGED <<now, calls, op, token, current_time, nfetch, stage, result>>

\* FetchFail with negative caching: a failed fetch clears the cache
FetchFail_clears_cache(p, why) ==
    /\ pc[p] = "fetching"
    /\ outcome' = [outcome EXCEPT ![p] = why]
    /\ pc' = [pc EXCEPT ![p] = "closing"]
    /\ _jwks_cache' = EmptyDoc
    /\ _jwks_last_updated' = 0
    /\ UNCHANGED <<now, calls, op, token, current_time, nfetch, stage, result>>

\* FetchFail with a retry: a failed fetch is attempted once more
FetchFail_retries(p, why) ==
    /\ pc[p] = "fetching"
    /\ outcome' = [outcome EXCEPT ![p] = why]
    /\ IF nfetch[p] < 2
       THEN /\ nfetch' = [nfetch EXCEPT ![p] = nfetch[p] + 1]
            /\ UNCHANGED pc
       ELSE /\ pc' = [pc EXCEPT ![p] = "closing"]
            /\ UNCHANGED nfetch
    /\ UNCHANGED <<now, _jwks_cache, _jwks_last_updated, calls, op, token,
                   current_time, stage, result>>

\* security.py:39-41: client.get, raise_for_status or response.json()
\* raised; the exception leaves the `async with` block, whose exit awaits
\* the closing of the client before line 44 catches it
FetchFail(p, why) ==
    /\ pc[p] = "fetching"
    /\ outcome' = [outcome EXCEPT ![p] = why]
    /\ pc' = [pc EXCEPT ![p] = "closing"]
    /\ UNCHANGED <<now, _jwks_cache, _jwks_last_updated, calls, op, token,
                   current_time, nfetch, stage, result>>

\* the coroutine is cancelled while it awaits the response: CancelledError
\* leaves the `async with` block, whose exit awaits the closing of the
\* client
CancelFetch(p) ==
    /\ pc[p] = "fetching"
    /\ outcome' = [outcome EXCEPT ![p] = "cancelled"]
    /\ pc' = [pc EXCEPT ![p] = "closing"]
    /\ UNCHANGED <<now, _jwks_cache, _jwks_last_updated, calls, op, token,
                   current_time, nfetch, stage, result>>

\* CloseClient with a stale-on-error fallback: a call whose fetch failed
\* returns the cache it finds, if any
CloseClient_serves_stale(p) ==
    /\ pc[p] = "closing"
    /\ IF outcome[p] = "ok" \/ (outcome[p] \in FailOutcomes /\ _jwks_cache.nonempty)
       THEN JwksReturns(p, op[p], token[p], _jwks_cache)
       ELSE IF outcome[p] = "cancelled"
       THEN JwksRaises(p, Cancelled)
       ELSE JwksRaises(p, JwksFetchFailed)
    /\ UNCHANGED <<now, _jwks_cache, _jwks_last_updated, calls, op, token, nfetch,
                   outcome>>

\* security.py:38: the client is closed and the `async with` block is left.
\* After a response that parsed get_jwks returns the global (line 50); an
\* exception of the fetch is caught at line 44 and becomes the
\* AppException of lines 45-48; CancelledError is no Exception and passes
CloseClient(p) ==
    /\ pc[p] = "closing"
    /\ IF outcome[p] = "ok"
       THEN JwksReturns(p, op[p], token[p], _jwks_cache)
       ELSE IF outcome[p] = "cancelled"
       THEN JwksRaises(p, Cancelled)
       ELSE JwksRaises(p, JwksFetchFailed)
    /\ UNCHANGED <<now, _jwks_cache, _jwks_last_updated, calls, op, token, nfetch,
                   outcome>>

\* the coroutine is cancelled while the client is being closed, after a
\* response or after a failure of the fetch
CancelClose(p) ==
    /\ pc[p] = "closing"
    /\ outcome[p] # "cancelled"
    /\ outcome' = [outcome EXCEPT ![p] = "cancelled_closing"]
    /\ JwksRaises(p, Cancelled)
    /\ UNCHANGED <<now, _jwks_cache, _jwks_last_updated, calls, op, token, nfetch>>

\* the clock: single ticks, and one jump of a whole time-to-live, so that a
\* cache can be met one tick younger than, exactly as old as and one tick
\* older than the time-to-live
Tick ==
    /\ (now - StartNow) % JumpLen < MaxSmallTicks
    /\ now' = now + 1
    /\ UNCHANGED <<_jwks_cache, _jwks_last_updated, calls, pc, op, token,
                   current_time, nfetch, outcome, stage, result>>

Jump ==
    /\ now - StartNow < JumpLen
    /\ now' = now + JumpLen
    /\ UNCHANGED <<_jwks_cache, _jwks_last_updated, calls, pc, op, token,
                   current_time, nfetch, outcome, stage, result>>

\* the key-set cache under direct calls of get_jwks and validate_token; no
\* request is served
Next ==
    \/ \E p \in Procs : CallGetJwks(p) /\ UNCHANGED apiVars
    \/ \E p \in Validators : \E tok \in TokensAt(now \div TicksPerSec) :
            CallValidate(p, tok) /\ UNCHANGED apiVars
    \/ \E p \in Procs : \E doc \in Docs : FetchOk(p, doc) /\ UNCHANGED apiVars
    \/ \E p \in Procs : \E why \in FailOutcomes :
            FetchFail(p, why) /\ UNCHANGED apiVars
    \/ \E p \in Cancellable : CancelFetch(p) /\ UNCHANGED apiVars
    \/ \E p \in Procs : CloseClient(p) /\ UNCHANGED apiVars
    \/ \E p \in Cancellable : CancelClose(p) /\ UNCHANGED apiVars
    \/ Tick /\ UNCHANGED apiVars
    \/ Jump /\ UNCHANGED apiVars

Spec == Init /\ [][Next]_vars

(* --------------------------- OilService --------------------------------- *)
\* Each request handler p runs its OilService call inside the transaction of
\* its request (db/base.py:56-73): the session begins when the handler
\* starts, what the call wrote is committed when get_db is left normally and
\* rolled back when it is left by an exception. The database is PostgreSQL
\* (asyncpg, db/base.py:15-17, 38-48) at its default isolation READ
\* COMMITTED: a statement sees what is committed when it runs and what its
\* own transaction wrote, and an UPDATE or DELETE of a row another
\* transaction has written and not committed waits for that transaction to
\* end. One action is one awaited statement or storage attempt; handlers of
\* different requests interleave between them.
IsRow(r) == r # NoRow
OilIdOrder == <<"id1", "id2">>
\* the page paginate() returns: its items and their number
Page(items) == [items |-> items, total |-> Len(items)]
\* the value True that delete_oil returns (oil_service.py:176)
True == [bool |-> TRUE]
\* the None the handler of DELETE returns: 204 without a body (oil.py:105-124)
NoContent == [body |-> None]
\* the rows in the order of their ids
rows_by_id(table) == SelectSeq([i \in 1..Len(OilIdOrder) |-> table[OilIdOrder[i]]], IsRow)
\* `if oil_resource.oil_document_url:` (oil_service.py:162)
has_document(row) == row # NoRow /\ row.oil_document_url \notin {None, ""}
\* the row of id as a statement of p's transaction finds it
visible(p, id) == IF session[p].id = id THEN session[p].row ELSE db[id]
\* another transaction has written the stored row of id and not ended
locked(p, id) ==
    \E q \in Procs \ {p} : session[q].id = id /\ db[id] # NoRow
\* the statement log with one more entry; rows is the statement's rowcount
executed(p, what, id, rows) ==
    [statements EXCEPT ![p] = Append(@, [statement |-> what, id |-> id, rows |-> rows])]

\* the call ends: it returns or raises r and the handler goes on to leave
\* get_db
Ends(p, r) ==
    /\ ended' = [ended EXCEPT ![p] = r]
    /\ phase' = [phase EXCEPT ![p] = "closing"]
\* the call goes on to its next await
Awaits(p, where) ==
    /\ ended' = [ended EXCEPT ![p] = NoResult]
    /\ phase' = [phase EXCEPT ![p] = where]
\* a call starts in a handler that runs none, with the statements its
\* first step executes
Begins(p, call, first) ==
    /\ phase[p] = "idle"
    /\ served' = [served EXCEPT ![p] = call]
    /\ statements' = [statements EXCEPT ![p] = first]
    /\ storage_calls' = [storage_calls EXCEPT ![p] = <<>>]

\* oil_service.py:30-47: the SELECT of repository.get and what follows it
OilService_get_oil(p, id) ==
    /\ Begins(p, ServiceCall("get_oil", id, NoValue), <<>>)
    /\ oil_resource' = [oil_resource EXCEPT ![p] = db[id]]
    /\ Ends(p, IF db[id] = NoRow THEN NotFound(id) ELSE Return(db[id]))
    /\ UNCHANGED <<db, session>>

\* oil_service.py:49-67: the SELECT of paginate
OilService_get_all_oil(p) ==
    /\ Begins(p, ServiceCall("get_all_oil", "-", NoValue), <<>>)
    /\ oil_resource' = [oil_resource EXCEPT ![p] = NoRow]
    /\ Ends(p, Return(Page(rows_by_id(db))))
    /\ UNCHANGED <<db, session>>

\* oil_service.py:69-86: the call reaches the storage client
OilService_generate_upload_url(p, key) ==
    /\ Begins(p, ServiceCall("generate_upload_url", "-", [key |-> key]), <<>>)
    /\ oil_resource' = [oil_resource EXCEPT ![p] = NoRow]
    /\ Awaits(p, "get_upload_url")
    /\ UNCHANGED <<db, session>>

\* r2_client.py:44-98 under its retry, one attempt: it ends as out, and uuid
\* is what uuid.uuid4() returns in it; with oil_service.py:87-90
R2_get_upload_url(p, out, uuid) ==
    LET key == served[p].data.key
        k == IF key \in {None, ""} THEN "" ELSE key
        n == Len(storage_calls[p]) + 1 IN
    /\ phase[p] = "get_upload_url"
    /\ k # "" => uuid = "-"
    /\ k = "" => uuid # "-"
    /\ storage_calls' = [storage_calls EXCEPT ![p] =
            Append(@, attempt_entry("get_upload_url", k, out, n, Len(statements[p])))]
    /\ IF out = "ok" THEN Ends(p, Return(upload_data(normalise_key(k, uuid))))
       ELSE IF stop_after_attempt(n) THEN Ends(p, StorageFailed(n))
       ELSE Awaits(p, "get_upload_url")
    /\ UNCHANGED <<db, served, oil_resource, session, statements>>

\* oil_service.py:93-110 with base_repository.py:42-50: add and the INSERT
\* of flush; id is the uuid the model's default draws
OilService_create_oil(p, id, data, user_id, email) ==
    LET row == OilResource(id, data.date, data.price, data.type,
                           data.oil_document_url, user_id, email, now, now) IN
    /\ db[id] = NoRow
    /\ \A q \in Procs : session[q].id # id
    /\ Begins(p, ServiceCall("create_oil", id, data),
              <<[statement |-> "INSERT", id |-> id, rows |-> 1]>>)
    /\ session' = [session EXCEPT ![p] = Write(id, row)]
    /\ oil_resource' = [oil_resource EXCEPT ![p] = row]
    /\ Awaits(p, "create_refresh")
    /\ db' = db

\* base_repository.py:52-54 and oil_service.py:110-113: the SELECT of
\* refresh on the row the transaction inserted, and the return
repository_create_refresh(p) ==
    LET row == visible(p, served[p].oil_id) IN
    /\ phase[p] = "create_refresh"
    /\ Ends(p, Return(row))
    /\ oil_resource' = [oil_resource EXCEPT ![p] = row]
    /\ UNCHANGED <<db, served, session, statements, storage_calls>>

\* oil_service.py:115-138 up to the SELECT of repository.update
\* (base_repository.py:66-78): no row ends the call with 404, no field to
\* write ends it with the row as loaded
OilService_update_oil(p, id, data) ==
    /\ Begins(p, ServiceCall("update_oil", id, data), <<>>)
    /\ oil_resource' = [oil_resource EXCEPT ![p] = db[id]]
    /\ IF db[id] = NoRow THEN Ends(p, NotFound(id))
       ELSE IF update_data(data) = {} THEN Ends(p, Return(db[id]))
       ELSE Awaits(p, "update")
    /\ UNCHANGED <<db, session>>

\* base_repository.py:79-90: the UPDATE statement, on the row as it is
\* stored when the statement runs, and the flush (nothing is pending, it
\* does not suspend)
repository_update_execute(p) ==
    LET id == served[p].oil_id IN
    /\ phase[p] = "update"
    /\ ~locked(p, id)
    /\ statements' = executed(p, "UPDATE", id, IF db[id] = NoRow THEN 0 ELSE 1)
    /\ session' = IF db[id] = NoRow THEN session
                  ELSE [session EXCEPT ![p] =
                            Write(id, updated_row(db[id], served[p].data, now))]
    /\ Awaits(p, "refresh")
    /\ UNCHANGED <<db, served, oil_resource, storage_calls>>

\* base_repository.py:93-97 and oil_service.py:133-138: the SELECT of
\* refresh; it raises when the row is no longer there
repository_update_refresh(p) ==
    LET row == visible(p, served[p].oil_id) IN
    /\ phase[p] = "refresh"
    /\ IF row = NoRow
       THEN /\ Ends(p, RefreshFailed)
            /\ oil_resource' = oil_resource
       ELSE /\ Ends(p, Return(row))
            /\ oil_resource' = [oil_resource EXCEPT ![p] = row]
    /\ UNCHANGED <<db, served, session, statements, storage_calls>>

\* oil_service.py:162-176, after repository.delete returned (its value is
\* not looked at): on to the storage client when the row that was looked
\* up has a document, else the call returns True
after_repository_delete(p) ==
    IF has_document(oil_resource[p]) THEN Awaits(p, "delete_file")
    ELSE Ends(p, Return(True))

\* delete_oil that goes on to repository.delete without raising when its
\* lookup finds no row
OilService_delete_oil_unchecked(p, id) ==
    /\ Begins(p, ServiceCall("delete_oil", id, NoValue), <<>>)
    /\ oil_resource' = [oil_resource EXCEPT ![p] = db[id]]
    /\ Awaits(p, "delete_execute")
    /\ UNCHANGED <<db, session>>

\* oil_service.py:140-156: the SELECT of the service's own lookup
OilService_delete_oil(p, id) ==
    /\ Begins(p, ServiceCall("delete_oil", id, NoValue), <<>>)
    /\ oil_resource' = [oil_resource EXCEPT ![p] = db[id]]
    /\ IF db[id] = NoRow THEN Ends(p, NotFound(id))
       ELSE Awaits(p, "delete")
    /\ UNCHANGED <<db, session>>

\* base_repository.py:99-103: the SELECT of repository.delete; it returns
\* False without a statement when the row is gone by now
repository_delete_get(p) ==
    /\ phase[p] = "delete"
    /\ IF db[served[p].oil_id] = NoRow THEN after_repository_delete(p)
       ELSE Awaits(p, "delete_execute")
    /\ UNCHANGED <<db, served, oil_resource, session, statements, storage_calls>>

\* base_repository.py:105-117: the DELETE statement and the flush
repository_delete_execute(p) ==
    LET id == served[p].oil_id IN
    /\ phase[p] = "delete_execute"
    /\ ~locked(p, id)
    /\ statements' = executed(p, "DELETE", id, IF db[id] = NoRow THEN 0 ELSE 1)
    /\ session' = IF db[id] = NoRow THEN session
                  ELSE [session EXCEPT ![p] = Write(id, NoRow)]
    /\ after_repository_delete(p)
    /\ UNCHANGED <<db, served, oil_resource, storage_calls>>

\* r2_client.py:100-113 under its retry, one attempt, with
\* oil_service.py:164-173
R2_delete_file(p, out) ==
    LET n == Len(storage_calls[p]) + 1 IN
    /\ phase[p] = "delete_file"
    /\ storage_calls' = [storage_calls EXCEPT ![p] =
            Append(@, attempt_entry("delete_file",
                                    document_key(oil_resource[p].oil_document_url),
                                    out, n, Len(statements[p])))]
    /\ IF out = "ok" THEN Ends(p, Return(True))
       ELSE IF stop_after_attempt(n) THEN Ends(p, StorageFailed(n))
       ELSE Awaits(p, "delete_file")
    /\ UNCHANGED <<db, served, oil_resource, session, statements>>

\* db/base.py:64-70: the handler leaves get_db; `async with session.begin()`
\* commits what the call wrote when it returned and rolls it back when it
\* raised. The locals and the logs of the call go with the handler.
get_db(p) ==
    /\ phase[p] = "closing"
    /\ db' = IF ended[p].kind = "return" /\ session[p] # NoWrite
             THEN [db EXCEPT ![session[p].id] = session[p].row]
             ELSE db
    /\ session' = [session EXCEPT ![p] = NoWrite]
    /\ phase' = [phase EXCEPT ![p] = "idle"]
    /\ oil_resource' = [oil_resource EXCEPT ![p] = NoRow]
    /\ statements' = [statements EXCEPT ![p] = <<>>]
    /\ storage_calls' = [storage_calls EXCEPT ![p] = <<>>]
    /\ ended' = [ended EXCEPT ![p] = NoResult]
    /\ served' = [served EXCEPT ![p] = NoCall]

(* ------------------------- the request pipeline -------------------------- *)
\* the coroutine that serves the request
Server == "a"
\* a request was received and has not been answered
InFlight == request # NoRequest /\ response = NoResult
\* get_token_data of the request in flight has ended
TokenDataDone == InFlight /\ pc[Server] = "done"

\* A request arrives; FastAPI resolves role_checker's dependency
\* get_token_data (security.py:132-158), which ends at once on a header it
\* rejects and otherwise calls validate_token with the second part.
Receive(req) ==
    /\ ~InFlight
    /\ pc[Server] \in {"idle", "done"}
    /\ phase[Server] = "idle"
    /\ calls[Server] < MaxRequests
    /\ request' = req
    /\ UNCHANGED oilVars
    /\ LET parsed == parse_authorization(req.authorization) IN
       IF ~parsed.ok
       THEN /\ response' = parsed.failure
            /\ UNCHANGED <<now, authVars>>
       ELSE /\ response' = NoResult
            /\ CallValidate(Server, parse_compact(parsed.word, now \div TicksPerSec))

\* get_token_data raised: role_checker and the endpoint do not run, the
\* exception reaches the error handlers (error_handlers.py:16-49)
AuthFails ==
    /\ TokenDataDone
    /\ result[Server].kind = "raise"
    /\ result[Server].exc # "CancelledError"
    /\ response' = result[Server]
    /\ UNCHANGED <<now, authVars, request, oilVars>>

\* the request was cancelled while get_jwks awaited: CancelledError unwinds
\* the request, no handler answers it
Abandon ==
    /\ TokenDataDone
    /\ result[Server].exc = "CancelledError"
    /\ request' = NoRequest
    /\ UNCHANGED <<now, authVars, response, oilVars>>

\* role_checker that tests the roles of the token as presented, whether or
\* not validate_token accepted it
Deny_before_validation ==
    /\ TokenDataDone
    /\ token[Server].headerOk
    /\ ~is_granted(request.gate, token[Server])
    /\ response' = AccessDenied
    /\ UNCHANGED <<now, authVars, request, oilVars>>

\* security.py:174-179, 197-202: role_checker raises
Deny ==
    /\ TokenDataDone
    /\ result[Server].kind = "return"
    /\ ~is_granted(request.gate, result[Server].value)
    /\ response' = role_checker(request.gate, result[Server].value)
    /\ UNCHANGED <<now, authVars, request, oilVars>>

\* role_checker returned the claims to endpoint ep
Authorized(ep) ==
    /\ TokenDataDone
    /\ request.endpoint = ep
    /\ result[Server].kind = "return"
    /\ role_checker(request.gate, result[Server].value).kind = "return"

\* a route whose handler returns the claims its gate handed it
route ==
    /\ Authorized("route")
    /\ response' = role_checker(request.gate, result[Server].value)
    /\ UNCHANGED <<now, authVars, request, oilVars>>

\* the handler of endpoint ep has not called the service yet
Enters(ep) ==
    /\ Authorized(ep)
    /\ served[Server] = NoCall
    /\ UNCHANGED <<now, authVars, request, response>>
\* the service call of endpoint ep has ended: the handler returns what the
\* call returned or lets its exception through to the error handlers
\* (error_handlers.py:35-67), and get_db is left
Leaves(ep) ==
    /\ Authorized(ep)
    /\ served[Server].op = ep
    /\ get_db(Server)
    /\ UNCHANGED <<now, authVars, request>>
\* the service call of the request in flight goes on by one await
Proceeds ==
    /\ InFlight
    /\ UNCHANGED <<now, authVars, request, response>>

\* oil.py:30-45
create_oil(id, data) ==
    \/ /\ Enters("create_oil")
       /\ OilService_create_oil(Server, id, data, result[Server].value.sub,
                                result[Server].value.email)
    \/ /\ Leaves("create_oil")
       /\ served[Server] = ServiceCall("create_oil", id, data)
       /\ response' = ended[Server]
\* oil.py:54-63
get_all_oil ==
    \/ /\ Enters("get_all_oil")
       /\ OilService_get_all_oil(Server)
    \/ /\ Leaves("get_all_oil")
       /\ response' = ended[Server]
\* oil.py:72-83
get_oil(id) ==
    \/ /\ Enters("get_oil")
       /\ OilService_get_oil(Server, id)
    \/ /\ Leaves("get_oil")
       /\ served[Server].oil_id = id
       /\ response' = ended[Server]
\* oil.py:92-104
update_oil(id, data) ==
    \/ /\ Enters("update_oil")
       /\ OilService_update_oil(Server, id, data)
    \/ /\ Leaves("update_oil")
       /\ served[Server] = ServiceCall("update_oil", id, data)
       /\ response' = ended[Server]
\* oil.py:105-124: the handler returns None whatever delete_oil returned
delete_oil(id) ==
    \/ /\ Enters("delete_oil")
       /\ OilService_delete_oil(Server, id)
    \/ /\ Leaves("delete_oil")
       /\ served[Server].oil_id = id
       /\ response' = IF ended[Server].kind = "return" THEN Return(NoContent)
                      ELSE ended[Server]
\* oil.py:134-150
generate_upload_url(key) ==
    \/ /\ Enters("generate_upload_url")
       /\ OilService_generate_upload_url(Server, key)
    \/ /\ Leaves("generate_upload_url")
       /\ served[Server].data = [key |-> key]
       /\ response' = ended[Server]

\* requests served one at a time by the coroutine Server, through the
\* pipeline header -> validate_token -> role_checker -> endpoint
ApiNext ==
    \/ \E req \in Requests : Receive(req)
    \/ \E doc \in Docs : FetchOk(Server, doc) /\ UNCHANGED apiVars
    \/ \E why \in FailOutcomes : FetchFail(Server, why) /\ UNCHANGED apiVars
    \/ CancelFetch(Server) /\ UNCHANGED apiVars
    \/ CloseClient(Server) /\ UNCHANGED apiVars
    \/ CancelClose(Server) /\ UNCHANGED apiVars
    \/ AuthFails
    \/ Abandon
    \/ Deny
    \/ route
    \/ \E id \in OilIds : \E data \in CreateInputs : create_oil(id, data)
    \/ get_all_oil
    \/ \E id \in OilIds : get_oil(id)
    \/ \E id \in OilIds : \E data \in ApiUpdateInputs : update_oil(id, data)
    \/ \E id \in OilIds : delete_oil(id)
    \/ \E key \in UploadKeys : generate_upload_url(key)
    \/ repository_create_refresh(Server) /\ Proceeds
    \/ repository_update_execute(Server) /\ Proceeds
    \/ repository_update_refresh(Server) /\ Proceeds
    \/ repository_delete_get(Server) /\ Proceeds
    \/ repository_delete_execute(Server) /\ Proceeds
    \/ \E out \in AttemptOutcomes : R2_delete_file(Server, out) /\ Proceeds
    \/ \E out \in AttemptOutcomes : \E uuid \in Uuid4s \cup {"-"} :
            R2_get_upload_url(Server, out, uuid) /\ Proceeds

ApiSpec == Init /\ [][ApiNext]_vars

\* handler p calls the service directly, and counts the call
Calls(p) ==
    /\ calls[p] < MaxOilCalls
    /\ calls' = [calls EXCEPT ![p] = @ + 1]
    /\ UNCHANGED <<now, _jwks_cache, _jwks_last_updated, pc, op, token,
                   current_time, nfetch, outcome, stage, result, request, response>>
\* a call in progress goes on by one await
Goes == UNCHANGED <<now, authVars, request, response>>
\* the calls of each handler: a makes every call, b the writes on the
\* resource that is stored from the start
Writer == "b"
UpdateOf(p) ==
    IF p = Writer THEN {OilResourceUpdate(None, "2.5", None, None)} ELSE UpdateInputs
IdsOf(p) == IF p = Writer THEN {"id1"} ELSE OilIds

\* OilService called directly by two request handlers at the same time,
\* each call in the transaction of its own request
OilNext ==
    \/ \E id \in OilIds : \E data \in CreateInputs : \E who \in {"alice"} :
            OilService_create_oil("a", id, data, who, who) /\ Calls("a")
    \/ OilService_get_all_oil("a") /\ Calls("a")
    \/ \E id \in OilIds : OilService_get_oil("a", id) /\ Calls("a")
    \/ \E key \in UploadKeys : OilService_generate_upload_url("a", key) /\ Calls("a")
    \/ \E p \in Procs : \E id \in IdsOf(p) : \E data \in UpdateOf(p) :
            OilService_update_oil(p, id, data) /\ Calls(p)
    \/ \E p \in Procs : \E id \in IdsOf(p) : OilService_delete_oil(p, id) /\ Calls(p)
    \/ repository_create_refresh("a") /\ Goes
    \/ \E p \in Procs : repository_update_execute(p) /\ Goes
    \/ \E p \in Procs : repository_update_refresh(p) /\ Goes
    \/ \E p \in Procs : repository_delete_get(p) /\ Goes
    \/ \E p \in Procs : repository_delete_execute(p) /\ Goes
    \/ \E p \in Procs : \E out \in AttemptOutcomes : R2_delete_file(p, out) /\ Goes
    \/ \E out \in AttemptOutcomes : \E uuid \in Uuid4s \cup {"-"} :
            R2_get_upload_url("a", out, uuid) /\ Goes
    \/ \E p \in Procs : get_db(p) /\ Goes

OilSpec == Init /\ [][OilNext]_vars

(* ------------------------- steps, as seen in a pair of states ----------- *)
\* coroutine p starts a call in this step
Starts(p) == calls'[p] = calls[p] + 1
\* coroutine p enters get_jwks in this step (directly or from validate_token)
EntersGetJwks(p) ==
    Starts(p) /\ ~(op'[p] = "validate_token" /\ token'[p].empty)
\* coroutine p runs lines 98-129 of validate_token in this step, against the
\* key set _jwks_cache and at time now
Validates(p) ==
    /\ op'[p] = "validate_token"
    /\ ~token'[p].empty
    /\ pc'[p] = "done"
    /\ \/ Starts(p)
       \/ pc[p] = "closing" /\ outcome'[p] = "ok"
\* the fetch of coroutine p fails in this step
FetchFails(p) ==
    pc[p] = "fetching" /\ outcome'[p] \in FailOutcomes
\* the call of coroutine p whose fetch failed ends in this step, its client
\* closed
FailedCallEnds(p) ==
    pc[p] = "closing" /\ outcome[p] \in FailOutcomes /\ outcome'[p] = outcome[p]
    /\ pc'[p] = "done"

(* ------------------------------- C1 ----------------------------------- *)
\* C1: when the first-ever fetch fails (no cache yet), get_jwks raises the
\* AppException with status 503, and validate_token called with a non-empty
\* token ends with a service-unavailable failure: status 503 and not the
\* AuthException (401) of a bad token.
C1_FirstFetchFailureIsServiceUnavailable ==
    \A p \in Procs :
        ( /\ pc[p] = "done"
          /\ outcome[p] \in FailOutcomes
          /\ ~_jwks_cache.nonempty
          /\ _jwks_last_updated = 0 )
        => /\ op[p] = "get_jwks" => result[p] = JwksFetchFailed
           /\ (op[p] = "validate_token" /\ ~token[p].empty)
                => /\ result[p].status = SERVICE_UNAVAILABLE
                   /\ result[p].exc # "AuthException"

(* ------------------------------- C2 ----------------------------------- *)
\* C2: when a coroutine's get_jwks call returned, nothing has replaced the
\* cache since, and the coroutine calls get_jwks again less than the
\* time-to-live after the cached timestamp, the second call returns the same
\* document and the two calls together issue at most one network request.
C2_SecondCallWithinTtlIsServedFromCache ==
    [][\A p \in Procs :
        ( /\ pc[p] = "done"
          /\ op[p] = "get_jwks"
          /\ result[p].kind = "return"
          /\ _jwks_cache = result[p].value
          /\ Starts(p)
          /\ op'[p] = "get_jwks"
          /\ now - _jwks_last_updated < TTL )
        => /\ pc'[p] = "done"
           /\ result'[p] = result[p]
           /\ nfetch[p] + nfetch'[p] <= 1]_vars

(* ------------------------------- C3 ----------------------------------- *)
\* C3: a call of get_jwks that finds a cache fetched at time T issues no
\* request when it is made in [T, T+3600) and issues one when it is made at
\* T+3600 or later.
C3_StaleFromTtlInclusive ==
    [][\A p \in Procs :
        (EntersGetJwks(p) /\ _jwks_cache.nonempty)
        => (nfetch'[p] = 1 <=> now - _jwks_last_updated >= TTL)]_vars

(* ------------------------------- C4 ----------------------------------- *)
\* C4: a step in which a coroutine's fetch fails or is cancelled in flight
\* leaves _jwks_cache and _jwks_last_updated as they were; the two change only
\* in a step in which a fetch succeeded and parsed, and then to that
\* response's document and that call's timestamp, both at once.
C4_FailedFetchLeavesCache ==
    [][/\ \A p \in Procs :
            (pc[p] = "fetching" /\ outcome'[p] \in FailOutcomes \cup {"cancelled"})
            => /\ _jwks_cache' = _jwks_cache
               /\ _jwks_last_updated' = _jwks_last_updated
       /\ (_jwks_cache' # _jwks_cache \/ _jwks_last_updated' # _jwks_last_updated)
            => \E p \in Procs :
                /\ pc[p] = "fetching"
                /\ outcome'[p] = "ok"
                /\ _jwks_cache' \in Docs
                /\ _jwks_last_updated' = current_time[p]]_vars

\* a refresh of a stale, non-empty cache has just failed, no other coroutine
\* ever ran, and the stale cache is still there
C4_Witness ==
    \E p \in Procs :
        /\ pc[p] = "done"
        /\ outcome[p] \in FailOutcomes
        /\ \A q \in Procs \ {p} : calls[q] = 0
        /\ _jwks_cache.nonempty
        /\ now - _jwks_last_updated > TTL

(* ------------------------------- C5 ----------------------------------- *)
\* C5 as stated: when the refresh fetch of validate_token fails while a
\* (stale) key set is cached, the call does not fail on the fetch: it
\* validates the token against the cached key set.
C5_StaleCacheServedOnFailure ==
    [][\A p \in Procs :
        (FailedCallEnds(p) /\ op[p] = "validate_token" /\ _jwks_cache.nonempty)
        => /\ stage'[p] # "get_jwks"
           /\ result'[p] = validate_with(token[p], _jwks_cache, now).result]_vars

\* C5 as amended: a failed refresh is surfaced whether or not a key set is
\* cached: get_jwks ends with its AppException of status 503, and
\* validate_token returns nothing while the fetch is failing and, when the
\* failed call ends, raises at get_jwks and returns no Claims; the cached key
\* set stays as it was and is not used as a fallback.
C5_FailureSurfacedCacheUntouched ==
    [][\A p \in Procs :
        /\ (FetchFails(p) /\ op[p] = "validate_token")
            => /\ result'[p].kind = "none"
               /\ _jwks_cache' = _jwks_cache
        /\ (FailedCallEnds(p) /\ op[p] = "validate_token")
            => /\ result'[p].kind = "raise"
               /\ stage'[p] = "get_jwks"
               /\ _jwks_cache' = _jwks_cache
        /\ (FailedCallEnds(p) /\ op[p] = "get_jwks")
            => /\ result'[p].kind = "raise"
               /\ result'[p].exc = "AppException"
               /\ result'[p].status = SERVICE_UNAVAILABLE
               /\ _jwks_cache' = _jwks_cache]_vars

\* validate_token has just failed on the refresh of a stale, non-empty cache
C5_Witness ==
    \E p \in Procs :
        /\ pc[p] = "done"
        /\ op[p] = "validate_token"
        /\ outcome[p] \in FailOutcomes
        /\ stage[p] = "get_jwks"
        /\ result[p].kind = "raise"
        /\ \A q \in Procs \ {p} : calls[q] = 0
        /\ _jwks_cache.nonempty
        /\ now - _jwks_last_updated > TTL

(* ------------------------------- C6 ----------------------------------- *)
\* C6: a call issues at most one network request; a get_jwks call whose fetch
\* failed has issued exactly one and ends with the AppException of status 503.
C6_OneAttemptThen503 ==
    \A p \in Procs :
        /\ nfetch[p] <= 1
        /\ (pc[p] = "done" /\ op[p] = "get_jwks" /\ outcome[p] \in FailOutcomes)
            => /\ nfetch[p] = 1
               /\ result[p].kind = "raise"
               /\ result[p].exc = "AppException"
               /\ result[p].status = SERVICE_UNAVAILABLE

\* a get_jwks call has ended on each kind of fetch failure: here a non-2xx
\* answer met by a call that found a stale cache
C6_Witness ==
    \E p \in Procs :
        /\ pc[p] = "done"
        /\ op[p] = "get_jwks"
        /\ outcome[p] = "http_error"
        /\ result[p] = JwksFetchFailed
        /\ _jwks_cache.nonempty

(* ------------------------------- C7 ----------------------------------- *)
\* C7: a token whose kid matches a usable key, whose signature verifies and
\* whose exp is at or before the time of validation fails with "Token has
\* expired".
C7_ExpiredTokenSaysExpired ==
    [][\A p \in Procs :
        LET key == get_key_from_jwks(token'[p], _jwks_cache) IN
        ( /\ Validates(p)
          /\ key # NoKey
          /\ key.mat # "bad"
          /\ token'[p].sig = key.mat
          /\ token'[p].shape = "ok"
          /\ token'[p].exp * TicksPerSec <= now )
        => result'[p] = AuthException("Token has expired")]_vars

(* ------------------------------- C8 ----------------------------------- *)
\* C8: a non-empty token whose header does not parse, or whose kid is the kid
\* of no key of the key set get_jwks returned, fails with "Invalid token
\* signature: Key not found" at the key lookup: no key is constructed, no
\* signature is verified and no Claims are returned.
C8_UnknownKidIsKeyNotFound ==
    [][\A p \in Procs :
        ( /\ Validates(p)
          /\ \/ ~token'[p].headerOk
             \/ \A i \in 1..Len(_jwks_cache.keys) :
                    _jwks_cache.keys[i].kid # token'[p].kid )
        => /\ result'[p] = AuthException("Invalid token signature: Key not found")
           /\ stage'[p] = "get_key"]_vars

\* a well-signed, unexpired token with a kid unknown to the non-empty cached
\* key set was refused at the key lookup
C8_Witness ==
    \E p \in Procs :
        /\ pc[p] = "done"
        /\ op[p] = "validate_token"
        /\ token[p].headerOk
        /\ token[p].kid = "k3"
        /\ token[p].sig = "m1"
        /\ stage[p] = "get_key"
        /\ result[p] = AuthException("Invalid token signature: Key not found")
        /\ _jwks_cache = DocA

(* ------------------------------- C9 ----------------------------------- *)
\* C9: a token whose kid selects a key of the key set, from which a public
\* key can be constructed, and whose signature does not verify against that
\* key fails with "Invalid authentication token" and returns no Claims.
C9_BadSignatureIsInvalidToken ==
    [][\A p \in Procs :
        LET key == get_key_from_jwks(token'[p], _jwks_cache) IN
        ( /\ Validates(p)
          /\ \E i \in 1..Len(_jwks_cache.keys) :
                _jwks_cache.keys[i].kid = token'[p].kid
          /\ token'[p].headerOk
          /\ key.mat # "bad"
          /\ token'[p].sig # key.mat )
        => /\ result'[p] = AuthException("Invalid authentication token")
           /\ stage'[p] = "decode"]_vars

\* a forged token with the kid of a cached key, otherwise well-shaped and
\* unexpired, was refused by jwt.decode
C9_Witness ==
    \E p \in Procs :
        /\ pc[p] = "done"
        /\ op[p] = "validate_token"
        /\ token[p].kid = "k1"
        /\ token[p].sig = "forged"
        /\ token[p].shape = "ok"
        /\ token[p].exp * TicksPerSec > now
        /\ stage[p] = "decode"
        /\ result[p] = AuthException("Invalid authentication token")
        /\ _jwks_cache = DocA

(* ------------------------------- C10 ---------------------------------- *)
\* C10: validate_token("") ends in the step that starts it, with "Missing
\* authentication token"; it issues no request and leaves _jwks_cache and
\* _jwks_last_updated unchanged.
C10_EmptyTokenFailsBeforeGetJwks ==
    [][\A p \in Procs :
        (Starts(p) /\ op'[p] = "validate_token" /\ token'[p].empty)
        => /\ pc'[p] = "done"
           /\ result'[p] = AuthException("Missing authentication token")
           /\ result'[p].status = UNAUTHORIZED
           /\ nfetch'[p] = 0
           /\ stage'[p] = "missing"
           /\ _jwks_cache' = _jwks_cache
           /\ _jwks_last_updated' = _jwks_last_updated]_vars

\* validate_token("") has ended while no key set was ever fetched
C10_Witness ==
    \E p \in Procs :
        /\ pc[p] = "done"
        /\ op[p] = "validate_token"
        /\ token[p].empty
        /\ result[p] = AuthException("Missing authentication token")
        /\ nfetch[p] = 0
        /\ ~_jwks_cache.nonempty
        /\ _jwks_last_updated = 0

(* ------------------------------- C11 ---------------------------------- *)
\* the header splits into exactly two parts, the first "bearer" in any case
IsBearerPair(h) ==
    Len(split(h)) = 2 /\ lower(split(h)[1]) = "bearer"
\* the step leaves validate_token uncalled: no call starts, no fetch is
\* issued, the cache and the coroutine stay as they are
ValidateNotInvoked ==
    /\ ~Starts(Server)
    /\ UNCHANGED authVars

\* C11 (as stated): a request whose Authorization header is present and does
\* not split into exactly two whitespace-separated parts with the first
\* equal to "bearer" case-insensitively ends with "Invalid authorization
\* header format" and validate_token is not invoked; a request without the
\* header ends with "Missing authorization header". Violated by the header
\* that is present with the empty string as its value.
C11_PresentMalformedHeaderIsInvalidFormat ==
    [][(~InFlight /\ request' # NoRequest) =>
        LET h == request'.authorization IN
        /\ (h.present /\ ~IsBearerPair(h)) =>
              /\ response' = AuthException("Invalid authorization header format")
              /\ ValidateNotInvoked
        /\ (~h.present) =>
              response' = AuthException("Missing authorization header")]_vars

\* C11 (amended): a request whose Authorization header is a non-empty string
\* that does not split into exactly two whitespace-separated parts with the
\* first equal to "bearer" case-insensitively ends with "Invalid
\* authorization header format"; a request whose header is absent or the
\* empty string ends with "Missing authorization header"; in both cases
\* validate_token is not invoked and no key set is fetched.
C11_NonEmptyMalformedHeaderIsInvalidFormat ==
    [][(~InFlight /\ request' # NoRequest) =>
        LET h == request'.authorization IN
        /\ (h.present /\ Len(h.text) > 0 /\ ~IsBearerPair(h)) =>
              /\ response' = AuthException("Invalid authorization header format")
              /\ ValidateNotInvoked
        /\ (~h.present \/ Len(h.text) = 0) =>
              /\ response' = AuthException("Missing authorization header")
              /\ ValidateNotInvoked]_vars

\* the request with the header "Token jwt.admin" was rejected for its format
\* while nothing was ever fetched or validated
C11_Witness ==
    /\ request.authorization = HeaderValue(<<"Token", " ", "jwt.admin">>)
    /\ response = AuthException("Invalid authorization header format")
    /\ calls[Server] = 0
    /\ pc[Server] = "idle"
    /\ ~_jwks_cache.nonempty
    /\ _jwks_last_updated = 0

(* ------------------------------- C12 ---------------------------------- *)
\* the set of the elements of a list
SetOf(l) == {l[i] : i \in 1..Len(l)}
\* the effective role set: the realm roles united with the roles of every
\* resource_access entry
EffectiveRoles(claims) ==
    (IF claims.realm_access.has_roles THEN SetOf(claims.realm_access.roles) ELSE {})
    \cup UNION {IF claims.resource_access.clients[i].has_roles
                THEN SetOf(claims.resource_access.clients[i].roles) ELSE {} :
                i \in 1..Len(claims.resource_access.clients)}
\* the role gate of the request in flight decides in this step, on claims
\* that validate_token returned
GateDecides ==
    /\ TokenDataDone
    /\ result[Server].kind = "return"
    /\ response' # NoResult

\* C12: on validated claims the gate has_role(r) grants, handing the claims
\* on unchanged, if and only if r is in the effective role set (realm roles
\* united with the roles of every resource_access entry); otherwise it
\* denies with "Access denied".
C12_HasRoleGrantsIffInEffectiveRoles ==
    [][(GateDecides /\ request.gate.kind = "has_role") =>
        LET claims == result[Server].value
            r == request.gate.roles[1]
        IN IF r \in EffectiveRoles(claims)
           THEN /\ response' # AccessDenied
                /\ request.endpoint = "route" => response' = Return(claims)
           ELSE /\ response' = AccessDenied
                /\ response'.message = "Access denied"]_vars

\* has_role("ROLE_OTHER") granted claims whose only roles come from
\* resource_access entries, and handed them on
C12_Witness ==
    /\ request = Request("route", HasRole("ROLE_OTHER"), Bearer("jwt.client"))
    /\ response = Return(JwtAt("jwt.client", now \div TicksPerSec))
    /\ response.value.realm_access.has_roles = FALSE

(* ------------------------------- C13 ---------------------------------- *)
\* C13: on validated claims the gate has_any_role(R) grants if and only if
\* the effective role set and R have a non-empty intersection; otherwise,
\* also when R is empty, it denies with the "Access denied" failure of
\* status 403 that has_role raises.
C13_HasAnyRoleGrantsIffIntersects ==
    [][(GateDecides /\ request.gate.kind = "has_any_role") =>
        LET claims == result[Server].value
            R == request.gate.roles
        IN IF EffectiveRoles(claims) \cap SetOf(R) # {}
           THEN response' = Return(claims)
           ELSE response' = Raise("AuthException", FORBIDDEN, "Access denied")]_vars

\* has_any_role([]) denied claims that hold ROLE_ADMIN
C13_Witness ==
    /\ request = Request("route", HasAnyRole(<<>>), Bearer("jwt.admin"))
    /\ result[Server].kind = "return"
    /\ "ROLE_ADMIN" \in EffectiveRoles(result[Server].value)
    /\ response = Raise("AuthException", FORBIDDEN, "Access denied")

(* ------------------------------- C14 ---------------------------------- *)
\* get_token_data accepts the header of the request: a non-empty value of
\* two parts, the first "bearer" in any case
HeaderAccepted == is_truthy(request.authorization) /\ IsBearerPair(request.authorization)
\* the token the accepted header carries
RequestToken == parse_compact(split(request.authorization)[2], now \div TicksPerSec)
\* a token that is no JWT, is signed by no key of the provider, is expired
\* or lacks a required field of the claims
TokenIsBad(tok) ==
    \/ tok.empty
    \/ ~tok.headerOk
    \/ tok.sig = "forged"
    \/ tok.exp < now \div TicksPerSec
    \/ tok.shape # "ok"
\* validate_token returned the claims of the request's token
Validated ==
    /\ HeaderAccepted
    /\ pc[Server] = "done"
    /\ op[Server] = "validate_token"
    /\ result[Server] = Return(RequestToken)

\* C14: the pipeline runs header parsing, then validate_token, then the role
\* check, and the role check only after validate_token succeeded: a request
\* answered 403 has an accepted header, a token that validate_token returned
\* claims for, and roles that do not satisfy the gate; a request with a
\* missing or malformed header, or with a token that is no JWT, forged,
\* expired or ill-shaped, is answered with an AuthException of status 401,
\* whatever roles the token claims.
C14_UnauthorizedBeforeForbidden ==
    /\ (response.kind = "raise" /\ response.status = FORBIDDEN) =>
          /\ response.exc = "AuthException"
          /\ Validated
          /\ ~TokenIsBad(RequestToken)
          /\ IF request.gate.kind = "has_role"
             THEN request.gate.roles[1] \notin EffectiveRoles(RequestToken)
             ELSE EffectiveRoles(RequestToken) \cap SetOf(request.gate.roles) = {}
    /\ (response # NoResult /\ request # NoRequest /\ ~HeaderAccepted) =>
          /\ response.exc = "AuthException"
          /\ response.status = UNAUTHORIZED
    /\ (response # NoResult /\ HeaderAccepted /\ TokenIsBad(RequestToken)) =>
          /\ response.exc = "AuthException"
          /\ response.status = UNAUTHORIZED
          /\ result[Server] = response
          /\ served[Server] = NoCall

\* a forged token that claims no role at all was answered 401 on a route
\* that requires ROLE_USER, after the key set had been fetched
C14_Witness ==
    /\ request = Request("route", HasRole("ROLE_USER"), Bearer("jwt.forged"))
    /\ EffectiveRoles(RequestToken) = {}
    /\ _jwks_cache = DocA
    /\ response = AuthException("Invalid authentication token")

(* ------------------------------- C15 ---------------------------------- *)
\* the messages of the AuthExceptions validate_token raises
ValidateMessages ==
    {"Missing authentication token", "Invalid token signature: Key not found",
     "Invalid authentication token", "Token has expired",
     "Error validating authentication token"}
\* coroutine p has ended a call of validate_token
ValidateEnded(p) == op[p] = "validate_token" /\ pc[p] = "done"
\* the ended call failed where no except clause names the failure: in
\* get_jwks, in jwk.construct, or in building the claims from the verified
\* payload
Unclassified(p) == stage[p] \in {"get_jwks", "construct", "model"}
\* what C15 says of the ended call of coroutine p
C15_Holds(p) ==
    /\ result[p].kind = "raise" =>
          /\ result[p].exc = "AuthException"
          /\ result[p].message \in ValidateMessages
    /\ (result[p].kind = "raise" /\ Unclassified(p)) =>
          result[p] = AuthException("Error validating authentication token")
    /\ (~token[p].empty /\ token[p].shape # "ok") => result[p].kind = "raise"
    /\ result[p].kind = "return" =>
          /\ result[p].value = token[p]
          /\ stage[p] = "return"

\* C15 (as stated): every call of validate_token that fails ends with an
\* AuthException carrying one of the fixed messages, a failure no except
\* clause names (a verified payload that does not fit the claims included)
\* with "Error validating authentication token"; no call returns claims of
\* an ill-shaped payload and no other exception type escapes. Violated by
\* the call cancelled while get_jwks awaits: CancelledError escapes.
C15_EveryFailureIsAuthException ==
    \A p \in Validators : ValidateEnded(p) => C15_Holds(p)

\* C15 (amended): as stated, for every call that is not cancelled while it
\* awaits in get_jwks; the cancelled call ends with asyncio.CancelledError,
\* returns no claims and leaves no AuthException.
C15_EveryFailureButCancellationIsAuthException ==
    \A p \in Validators : ValidateEnded(p) =>
        IF outcome[p] \in {"cancelled", "cancelled_closing"}
        THEN result[p] = Cancelled
        ELSE C15_Holds(p)

\* a token with a valid signature and an ill-shaped payload ended, after a
\* successful fetch, with the generic AuthException
C15_Witness ==
    /\ ValidateEnded("a")
    /\ token["a"].sig = "m1" /\ token["a"].shape = "bad"
    /\ outcome["a"] = "ok"
    /\ stage["a"] = "model"
    /\ result["a"] = AuthException("Error validating authentication token")

(* ------------------------------- C16 ---------------------------------- *)
\* the fetch of coroutine p succeeds in this step
FetchSucceeds(p) ==
    pc[p] = "fetching" /\ pc'[p] = "closing" /\ outcome'[p] = "ok"

\* C16: the cache holds one key set at a time: while the timestamp has its
\* initial value 0 nothing was fetched and the cache is absent; the cache
\* and the timestamp change only in the step in which one fetch succeeds,
\* together, to a whole response document and to the timestamp that same
\* call of get_jwks recorded; no step changes one and leaves the other to
\* an earlier fetch.
C16_OneKeySetWithItsTimestamp ==
    /\ [](/\ _jwks_cache \in Docs
          /\ _jwks_last_updated = 0 => _jwks_cache = EmptyDoc)
    /\ [][\A p \in Procs :
            /\ FetchSucceeds(p) =>
                  /\ _jwks_cache' \in Docs
                  /\ _jwks_last_updated' = current_time[p]
                  /\ _jwks_last_updated' # 0
            /\ ((_jwks_cache' # _jwks_cache \/ _jwks_last_updated' # _jwks_last_updated)
                  => \E q \in Procs : FetchSucceeds(q))]_vars

\* a second successful fetch has replaced the cached document and the
\* timestamp, its client still open
C16_Witness ==
    /\ _jwks_cache = DocB
    /\ _jwks_last_updated = StartNow + 1
    /\ \E p \in Procs : pc[p] = "closing" /\ outcome[p] = "ok" /\ calls[p] = 2

(* ------------------------------- C17 ---------------------------------- *)
\* no call is under way
Quiescent == \A p \in Procs : pc[p] \in {"idle", "done"}
\* the call of get_jwks of coroutine p returns in this step
GetJwksReturns(p) ==
    /\ op[p] = "get_jwks"
    /\ pc[p] \in {"fetching", "closing"}
    /\ pc'[p] = "done"
    /\ result'[p].kind = "return"

\* C17: however the calls of get_jwks interleave, a call that returns after
\* a fetch returns a whole response document, the one the cache holds at
\* that moment; a successful fetch puts a whole response document in the
\* cache, whatever another call stored while this one awaited; and when no
\* call is under way the cache is a whole document, never a mixture of two
\* responses.
C17_ConcurrentFetchesLeaveWholeDocuments ==
    /\ [][\A p \in Procs :
            /\ GetJwksReturns(p) =>
                  /\ result'[p].value \in Docs
                  /\ result'[p].value = _jwks_cache
            /\ (FetchSucceeds(p) /\ \E q \in Procs \ {p} : pc[q] \in {"fetching", "closing"})
                  => _jwks_cache' \in Docs]_vars
    /\ [](Quiescent => _jwks_cache \in Docs)

\* two calls that both found no cache at the same instant each fetched; the
\* first returned its own document, the second overwrote the cache and
\* returned the other document
C17_Witness ==
    /\ now = StartNow
    /\ Quiescent
    /\ op["a"] = "get_jwks" /\ op["b"] = "get_jwks"
    /\ nfetch["a"] = 1 /\ nfetch["b"] = 1
    /\ outcome["a"] = "ok" /\ outcome["b"] = "ok"
    /\ result["a"] = Return(DocA)
    /\ result["b"] = Return(DocB)
    /\ _jwks_cache = DocB

(* ------------------------------- C18 ---------------------------------- *)
\* the role an operation of the service asks of the caller
RequiredRole(o) ==
    IF o \in {"get_oil", "get_all_oil"} THEN "ROLE_USER" ELSE "ROLE_ADMIN"
\* the request's token validated and its effective roles hold role r
ValidatedWith(r) == Validated /\ r \in EffectiveRoles(RequestToken)

\* C18: an operation of OilService has run for a request only if the request
\* called the endpoint of that name with a bearer token that validated and
\* whose effective roles hold ROLE_ADMIN, for create_oil, update_oil,
\* delete_oil and generate_upload_url, or ROLE_USER, for get_oil and
\* get_all_oil; an answered request to an endpoint without such a token ran
\* no operation, no statement and no storage call, and was answered 401 or
\* 403.
C18_ServiceOnlyBehindItsRole ==
    /\ served[Server] # NoCall =>
          /\ served[Server].op = request.endpoint
          /\ ValidatedWith(RequiredRole(served[Server].op))
    /\ (phase[Server] # "idle" \/ session[Server] # NoWrite) => served[Server] # NoCall
    /\ (response # NoResult /\ request.endpoint \in Endpoints
          /\ ~ValidatedWith(RequiredRole(request.endpoint))) =>
          /\ served[Server] = NoCall
          /\ statements[Server] = <<>>
          /\ storage_calls[Server] = <<>>
          /\ response.exc = "AuthException"
          /\ response.status \in {UNAUTHORIZED, FORBIDDEN}

\* a validated token that holds ROLE_ADMIN and not ROLE_USER asked for
\* get_oil and was answered 403 without the service being called
C18_Witness ==
    /\ request = Request("get_oil", HasRole("ROLE_USER"), Bearer("jwt.admin"))
    /\ Validated
    /\ EffectiveRoles(RequestToken) = {"ROLE_ADMIN"}
    /\ response = AccessDenied
    /\ served[Server] = NoCall

(* ------------------------------- C19 ---------------------------------- *)
\* handler p calls the service operation o in this step: the operation's
\* lookup runs
Looks(p, o) == phase[p] = "idle" /\ phase'[p] # "idle" /\ served'[p].op = o
\* the call of handler p returns or raises in this step
CallEnds(p) == phase[p] # "closing" /\ phase'[p] = "closing"
\* handler p leaves get_db in this step: its transaction ends
Leave(p) == phase[p] = "closing" /\ phase'[p] = "idle"

\* C19: get_oil, update_oil and delete_oil called with an id under which no
\* resource is stored raise AppException with status 404 and change
\* nothing: no statement is executed, no storage call is made, nothing is
\* written in the transaction and the table is as it was when the request
\* is over.
C19_UnknownIdIsNotFoundAndChangesNothing ==
    [][\A p \in Procs :
        /\ \A o \in {"get_oil", "update_oil", "delete_oil"} :
            (Looks(p, o) /\ db[served'[p].oil_id] = NoRow) =>
                /\ CallEnds(p)
                /\ ended'[p].kind = "raise"
                /\ ended'[p].exc = "AppException"
                /\ ended'[p].status = NOT_FOUND
                /\ statements'[p] = <<>>
                /\ storage_calls'[p] = <<>>
                /\ session' = session
                /\ db' = db
        /\ (Leave(p) /\ ended[p].status = NOT_FOUND) =>
                /\ db' = db
                /\ statements[p] = <<>>
                /\ storage_calls[p] = <<>>]_vars

\* delete_oil of an id that is not stored ended with 404, while another
\* resource with a document stayed in the table and nothing was deleted
C19_Witness ==
    /\ served["a"] = ServiceCall("delete_oil", "id2", NoValue)
    /\ phase["a"] = "closing"
    /\ db["id2"] = NoRow
    /\ db["id1"] # NoRow /\ db["id1"].oil_document_url = UrlA
    /\ ended["a"] = NotFound("id2")
    /\ statements["a"] = <<>>
    /\ storage_calls["a"] = <<>>

(* ------------------------------- C20 ---------------------------------- *)
\* handler p runs update_oil on a resource its lookup found
UpdatesStored(p) == served'[p].op = "update_oil" /\ oil_resource'[p] # NoRow

\* C20: update_oil of a stored resource sets every field whose input is not
\* None to the input and leaves every field whose input is None as it was,
\* so no field becomes None, and the updated row is returned; when every
\* input is None no UPDATE statement is executed and the stored resource is
\* returned as it is.
C20_UpdateIsPartial ==
    [][\A p \in Procs :
        LET id == served'[p].oil_id
            data == served'[p].data
        IN /\ (UpdatesStored(p) /\ phase[p] = "update" /\ phase'[p] = "refresh"
                    /\ session'[p] # NoWrite) =>
                /\ session'[p].id = id
                /\ \A f \in UpdateFields :
                      /\ session'[p].row[f] =
                            (IF data[f] # None THEN data[f] ELSE db[id][f])
                      /\ db[id][f] # None => session'[p].row[f] # None
                /\ \A f \in {"id", "userId", "email", "created_at"} :
                      session'[p].row[f] = db[id][f]
           /\ (UpdatesStored(p) /\ Looks(p, "update_oil")
                    /\ \A f \in UpdateFields : data[f] = None) =>
                /\ CallEnds(p)
                /\ ended'[p] = Return(db[id])
                /\ statements'[p] = <<>>
                /\ session' = session
           /\ (UpdatesStored(p) /\ CallEnds(p)) =>
                /\ ended'[p].kind = "return"
                /\ \A f \in UpdateFields :
                      data[f] # None => ended'[p].value[f] = data[f]
                /\ statements'[p] # <<>> => ended'[p].value = session'[p].row]_vars

(* ------------------------------- C21 ---------------------------------- *)
\* the resource has a document URL (oil_service.py:162)
HasDocument(row) == row.oil_document_url \notin {None, ""}
\* key is path without the slashes it begins with
IsStrippedPath(key, path) ==
    /\ ~startswith(key, "/")
    /\ Len(key) <= Len(path)
    /\ SubSeq(path, Len(path) - Len(key) + 1, Len(path)) = key
    /\ \A i \in 1..(Len(path) - Len(key)) : SubSeq(path, i, i) = "/"
\* handler p runs delete_oil on a resource its lookup found
DeletesStored(p) == served'[p].op = "delete_oil" /\ oil_resource'[p] # NoRow
\* the one DELETE statement that removed the row of id
RowDeleted(id) == <<[statement |-> "DELETE", id |-> id, rows |-> 1]>>

\* C21: delete_oil of a stored resource executes the DELETE statement first;
\* a resource without a document URL is then gone with no storage call; a
\* resource with a document URL is followed by one delete_file call whose
\* key is the path of the URL without its leading slashes; when that call
\* fails delete_oil raises AppException with status 500 and the transaction
\* is rolled back, so the resource is stored as before when the request is
\* over.
C21_DeleteRowThenDocumentRollbackOnFailure ==
    [][\A p \in Procs :
        LET id == served'[p].oil_id
            row == oil_resource'[p]
            log == storage_calls'[p]
        IN /\ (DeletesStored(p) /\ log # storage_calls[p] /\ log # <<>>) =>
                /\ HasDocument(row)
                /\ statements[p] = RowDeleted(id)
                /\ \A i \in 1..Len(log) :
                      /\ log[i].call = "delete_file"
                      /\ IsStrippedPath(log[i].key, url_path(row.oil_document_url))
                      /\ log[i].after = 1
                      /\ i < Len(log) => log[i].outcome = "error"
           /\ (DeletesStored(p) /\ CallEnds(p)) =>
                /\ statements'[p] = RowDeleted(id)
                /\ IF ~HasDocument(row)
                   THEN /\ log = <<>>
                        /\ ended'[p] = Return(True)
                   ELSE /\ log # <<>>
                        /\ IF log[Len(log)].outcome = "ok"
                           THEN ended'[p] = Return(True)
                           ELSE /\ ended'[p].kind = "raise"
                                /\ ended'[p].exc = "AppException"
                                /\ ended'[p].status = INTERNAL_SERVER_ERROR
           /\ (served[p].op = "delete_oil" /\ oil_resource[p] # NoRow /\ Leave(p)) =>
                IF ended[p].kind = "return"
                THEN db' = [db EXCEPT ![served[p].oil_id] = NoRow]
                ELSE db' = db /\ db'[served[p].oil_id] = oil_resource[p]]_vars

(* ------------------------------- C22 ---------------------------------- *)
\* handler p made an attempt on the storage client in this step
Attempts(p) == storage_calls'[p] # storage_calls[p] /\ storage_calls'[p] # <<>>

\* C22: a call of get_upload_url or delete_file makes between one and three
\* attempts; every attempt but the last failed, so the first success ends
\* the call and its result is returned; a failed first or second attempt
\* is followed by another; a call whose third attempt failed ends and the
\* service raises AppException with status 500 whose message is the
\* exception of that third attempt.
C22_AtMostThreeAttemptsFirstSuccessWins ==
    [][\A p \in Procs : Attempts(p) =>
        LET log == storage_calls'[p]
            n == Len(log)
        IN /\ n \in 1..3
           /\ SubSeq(log, 1, n - 1) = storage_calls[p]
           /\ \A i \in 1..(n - 1) : log[i].outcome = "error"
           /\ \A i \in 1..n : log[i].call = log[1].call /\ log[i].key = log[1].key
           /\ log[1].call = (IF served'[p].op = "delete_oil" THEN "delete_file"
                             ELSE "get_upload_url")
           /\ log[n].outcome = "ok" =>
                /\ CallEnds(p)
                /\ ended'[p].kind = "return"
           /\ (log[n].outcome = "error" /\ n < 3) =>
                /\ phase'[p] = phase[p]
                /\ ended'[p] = NoResult
           /\ (log[n].outcome = "error" /\ n = 3) =>
                /\ CallEnds(p)
                /\ ended'[p] = Raise("AppException", INTERNAL_SERVER_ERROR, log[3].raised)
                /\ log[3].raised \notin {log[1].raised, log[2].raised}]_vars

\* get_upload_url failed twice and succeeded in its third attempt: the
\* upload URL of that attempt is returned
C22_Witness ==
    /\ served["a"] = ServiceCall("generate_upload_url", "-", [key |-> "a.pdf"])
    /\ Len(storage_calls["a"]) = 3
    /\ storage_calls["a"][1].outcome = "error"
    /\ storage_calls["a"][2].outcome = "error"
    /\ storage_calls["a"][3].outcome = "ok"
    /\ ended["a"] = Return(upload_data("uploads/a.pdf"))

(* ------------------------------- C23 ---------------------------------- *)
\* generate_upload_url of handler p returned upload data in this step
UploadUrlReturned(p) ==
    /\ served'[p].op = "generate_upload_url"
    /\ CallEnds(p)
    /\ ended'[p].kind = "return"

\* C23: the key generate_upload_url returns starts with "uploads/": for no
\* key or the empty key it is "uploads/" and a uuid, for a key that does
\* not start with "uploads/" it is that key behind "uploads/", and a key
\* that starts with "uploads/" is returned as it is, so that normalising
\* the returned key again gives the same key; public_url is the configured
\* public URL, a slash and the returned key.
C23_ReturnedKeyIsUnderUploads ==
    [][\A p \in Procs : UploadUrlReturned(p) =>
        LET asked == served'[p].data.key
            key == ended'[p].value.key
        IN /\ startswith(key, "uploads/")
           /\ asked \in {None, ""} => \E uuid \in Uuid4s : key = "uploads/" \o uuid
           /\ (asked \notin {None, ""} /\ ~startswith(asked, "uploads/")) =>
                key = "uploads/" \o asked
           /\ (asked # None /\ startswith(asked, "uploads/")) => key = asked
           /\ \A uuid \in Uuid4s : normalise_key(key, uuid) = key
           /\ ended'[p].value.public_url = R2_PUBLIC_URL \o "/" \o key]_vars

\* a key that has "uploads/" behind a slash, not at its start, got the
\* prefix in front
C23_Witness ==
    /\ served["a"] = ServiceCall("generate_upload_url", "-", [key |-> "/uploads/a.pdf"])
    /\ ended["a"].kind = "return"
    /\ ended["a"].value.key = "uploads//uploads/a.pdf"
    /\ ended["a"].value.public_url = "https://cdn.example/uploads//uploads/a.pdf"
(* ------------------------------- C24 ---------------------------------- *)
\* C24 as stated: the cached timestamp never decreases, and no fetch that
\* succeeds replaces a cached key set that a fetch started later than it
\* has produced.
C24_TimestampNeverDecreases ==
    [][/\ _jwks_last_updated' >= _jwks_last_updated
       /\ \A p \in Procs :
            (FetchSucceeds(p) /\ _jwks_last_updated # 0) =>
                current_time[p] >= _jwks_last_updated]_vars

\* C24, amended: the fetch that completes last wins. The timestamp is never
\* ahead of the clock; every fetch that succeeds sets it to the time its
\* own call of get_jwks read before the request, and the timestamp
\* decreases exactly in the steps in which a fetch succeeds whose call
\* read the clock before the call that produced the cached key set did.
C24_LastCompletedFetchWins ==
    /\ [](_jwks_last_updated <= now)
    /\ [][/\ \A p \in Procs :
              FetchSucceeds(p) =>
                /\ _jwks_last_updated' = current_time[p]
                /\ _jwks_cache' \in Docs
          /\ (_jwks_last_updated' < _jwks_last_updated) <=>
                \E p \in Procs :
                    FetchSucceeds(p) /\ current_time[p] < _jwks_last_updated]_vars

\* two calls were fetching at once; the one that started later succeeded
\* first, then the one that started earlier succeeded and set the
\* timestamp back to its own start
C24_Witness ==
    \E p \in Procs : \E q \in Procs \ {p} :
        /\ pc[p] = "closing" /\ outcome[p] = "ok"
        /\ pc[q] \in {"closing", "done"} /\ outcome[q] = "ok"
        /\ current_time[p] < current_time[q]
        /\ _jwks_last_updated = current_time[p]
        /\ _jwks_cache = DocA
(* ------------------------------- C25 ---------------------------------- *)
\* key is the first entry of the key set doc whose kid is kid
FirstWithKid(key, doc, kid) ==
    \E i \in 1..Len(doc.keys) :
        /\ doc.keys[i] = key
        /\ key.kid = kid
        /\ \A j \in 1..(i - 1) : doc.keys[j].kid # kid

\* C25: the key lookup of validate_token returns a key only for a token
\* whose header parses and carries a kid, and then the first entry of the
\* key set with that kid; a token whose header does not parse or has no
\* kid gets no key, whatever the key set holds, and is refused with
\* "Invalid token signature: Key not found".
C25_KeyOnlyForTheTokensKid ==
    [][\A p \in Procs :
        Validates(p) =>
            LET tok == token'[p]
                key == get_key_from_jwks(tok, _jwks_cache)
            IN /\ key # NoKey =>
                    /\ tok.headerOk
                    /\ tok.kid # NoKid
                    /\ FirstWithKid(key, _jwks_cache, tok.kid)
               /\ (~tok.headerOk \/ tok.kid = NoKid) =>
                    /\ key = NoKey
                    /\ stage'[p] = "get_key"
                    /\ result'[p] =
                         AuthException("Invalid token signature: Key not found")]_vars
====
